---- MODULE Spec2Model ----
(***************************************************************************)
(* Comment lifecycle and AI generation pipeline of the Daimon editor       *)
(* backend (Convex functions in convex/comments.ts and convex/documents.ts *)
(* ).  Tables are sequences whose index is the database id; scheduled      *)
(* actions are rows of the scheduler's job table with a program counter.   *)
(* Rows keep their creation order, so the createdAt / updatedAt stamps     *)
(* (Date.now(), monotone) are left out; resolvedAt is kept.  Temperature   *)
(* is counted in tenths.                                                   *)
(***************************************************************************)
EXTENDS Integers, Sequences, FiniteSets, TLC

\* ------------------------------------------------------------------------
\* Bounds of the model
\* ------------------------------------------------------------------------
MaxComments == 2
MaxJobs == 2
MaxTime == 1
MaxOnboarding == 1
MaxDocs == 2
MaxSources == 1
MaxRows == 4
MaxEdits == 3

\* ------------------------------------------------------------------------
\* Values
\* ------------------------------------------------------------------------
NoUser == "unauthenticated"
Users == {"alice", "bob"}
Callers == Users \cup {NoUser}
Tokens == {"uuid-a", "uuid-b"}
SelTexts == {"The fox jumps."}
ReplyTexts == {"what's the inclination?"}
AITexts == {"daimon says"}
Throw == "<throws>"
Undefined == -1
Statuses == {"awaiting_input", "pending", "streaming", "complete", "error"}
OnboardingSections ==
    << "Welcome to Daimon", "Summoning Daimon & Comments",
       "Adding Research Sources", "Customizing Your Experience" >>
\* crypto.randomUUID() for the four sections of an onboarding document
OnboardingTokens ==
    << "uuid-welcome", "uuid-summon", "uuid-sources", "uuid-settings" >>
OnboardingPreset ==
    [model |-> "gpt-4.1", provider |-> "openai", temperature |-> 10,
     maxSteps |-> 3, systemPrompt |-> "preset prompt",
     description |-> "preset description",
     tools |-> [searchSources |-> TRUE, webSearch |-> TRUE, citation |-> FALSE]]
Null == [null |-> TRUE]
NoPreset == Null
\* An optional string or boolean field that is absent (undefined)
Unset == "<undefined>"
\* JSON.stringify({ type: "doc", content: [] })
EmptyDoc == "{\"type\":\"doc\",\"content\":[]}"
\* JSON.stringify(onboardingContent)
OnboardingContent == "{\"type\":\"doc\",\"content\":[onboarding]}"

VARIABLES
    documents,         \* table documents: Seq of rows, id = index; deleted rows stay as tombstones
    documentSettings,  \* table documentSettings: Seq of rows
    comments,          \* table comments: Seq of rows, id = index
    commentMessages,   \* table commentMessages: Seq of rows, in creation order
    scheduled,         \* scheduler: Seq of generation jobs with their pc
    now,               \* Date.now()
    origin,            \* history: the mutation that inserted each comment
    sources,           \* table sources: Seq of rows, id = index
    indexJobs,         \* scheduler: Seq of sourcesActions jobs with their pc
    rag,               \* RAG component: Seq of index entries, entryId = index
    editor             \* DocumentPage of document 1, open in its owner's browser

vars == << documents, documentSettings, comments, commentMessages, scheduled,
           now, origin, sources, indexJobs, rag, editor >>

\* ------------------------------------------------------------------------
\* Helpers over the tables
\* ------------------------------------------------------------------------
CommentIds == 1..Len(comments)
JobIds == 1..Len(scheduled)
DocIds == 1..Len(documents)
Min(S) == CHOOSE x \in S : \A y \in S : x <= y

\* ctx.db.get(documentId): the row, or null for a deleted document
documentOwned(u, d) == d \in DocIds /\ ~documents[d].deleted /\ documents[d].ownerId = u

\* commentMessages.withIndex("by_commentId").collect(): indexes in creation order
messagesOf(c) == { i \in 1..Len(commentMessages) : commentMessages[i].commentId = c }
userMessagesOf(c) == { i \in messagesOf(c) : commentMessages[i].role = "user" }
assistantMessagesOf(c) == { i \in messagesOf(c) : commentMessages[i].role = "assistant" }

RECURSIVE collectMessages(_, _)
collectMessages(s, c) ==
    IF s = << >> THEN << >>
    ELSE IF Head(s).commentId = c
         THEN << [role |-> Head(s).role, content |-> Head(s).content] >> \o collectMessages(Tail(s), c)
         ELSE collectMessages(Tail(s), c)

\* internalQuery getCommentWithMessages
getCommentWithMessages(c) ==
    IF c \notin CommentIds THEN Null
    ELSE [selectedText |-> comments[c].selectedText,
          messages |-> collectMessages(commentMessages, c)]

\* Mutant: the row is replaced instead of patched, losing resolvedAt
updateCommentStatus_replace(c, st) ==
    [comments EXCEPT ![c].status = st, ![c].resolvedAt = Undefined]

\* internalMutation updateCommentStatus: ctx.db.patch(id, {status})
updateCommentStatus(c, st) == [comments EXCEPT ![c].status = st]

\* internalMutation saveAIMessage: insert an assistant message
saveAIMessage(c, text) ==
    Append(commentMessages,
           [commentId |-> c, role |-> "assistant", content |-> text])

\* ctx.scheduler.runAfter(0, fn, args): a new row of the scheduler's table.
\* by, startCount, endCount, saved and calls (the generateText calls made)
\* are history fields of the job.
newJob(fn, c, d, sel, u, by) ==
    [fn |-> fn, commentDbId |-> c, documentId |-> d, selectedText |-> sel,
     userId |-> u, pc |-> "scheduled", prompt |-> Null, text |-> "none",
     by |-> by, startCount |-> 0, endCount |-> 0, saved |-> FALSE,
     calls |-> 0]

\* ------------------------------------------------------------------------
\* Init
\* ------------------------------------------------------------------------
Init ==
    /\ documents = << [ownerId |-> "alice", title |-> "Untitled",
                       content |-> EmptyDoc, isArchived |-> Unset,
                       deleted |-> FALSE] >>
    /\ documentSettings = << >>
    /\ comments = << >>
    /\ commentMessages = << >>
    /\ scheduled = << >>
    /\ now = 0
    /\ origin = << >>
    /\ sources = << >>
    /\ indexJobs = << >>
    /\ rag = << >>
    /\ editor = [content |-> "", title |-> "Untitled", saveStatus |-> "saved",
                 pendingContentRef |-> Unset, saveTimeoutRef |-> FALSE,
                 titleTimeoutRef |-> Unset, calls |-> << >>, edits |-> 0]

\* ------------------------------------------------------------------------
\* Public mutations of convex/comments.ts
\* ------------------------------------------------------------------------
userCreated == Cardinality({ c \in CommentIds : origin[c] # "createOnboardingDocument" })

\* The error a create call throws, or "ok"
createOutcome(u, d) ==
    IF u = NoUser THEN "Not authenticated"
    ELSE IF ~documentOwned(u, d) THEN "Document not found"
    ELSE "ok"

\* Mutant: the highlighted text is not stored as the first user message
create_noUserMessage(u, d, tok, sel) ==
    IF createOutcome(u, d) # "ok" THEN UNCHANGED vars
    ELSE
    /\ userCreated < MaxComments
    /\ Len(scheduled) < MaxJobs
    /\ LET commentDbId == Len(comments) + 1 IN
       /\ comments' = Append(comments,
            [documentId |-> d, commentId |-> tok, selectedText |-> sel,
             status |-> "pending", ownerId |-> u,
             resolvedAt |-> Undefined])
       /\ scheduled' = Append(scheduled,
            newJob("generateAIResponse", commentDbId, d, sel, u, "create"))
       /\ origin' = Append(origin, "create")
    /\ UNCHANGED << documents, documentSettings, commentMessages, now, sources, indexJobs, rag, editor >>

create(u, d, tok, sel) ==
    IF createOutcome(u, d) # "ok" THEN UNCHANGED vars
    ELSE
    /\ userCreated < MaxComments
    /\ Len(scheduled) < MaxJobs
    /\ LET commentDbId == Len(comments) + 1 IN
       /\ comments' = Append(comments,
            [documentId |-> d, commentId |-> tok, selectedText |-> sel,
             status |-> "pending", ownerId |-> u,
             resolvedAt |-> Undefined])
       /\ commentMessages' = Append(commentMessages,
            [commentId |-> commentDbId, role |-> "user", content |-> sel])
       /\ scheduled' = Append(scheduled,
            newJob("generateAIResponse", commentDbId, d, sel, u, "create"))
       /\ origin' = Append(origin, "create")
    /\ UNCHANGED << documents, documentSettings, now, sources, indexJobs, rag, editor >>

\* Mutant: any authenticated user may act on a comment
commentOutcome_anyone(u, c) ==
    IF u = NoUser THEN "Not authenticated"
    ELSE IF c \notin CommentIds THEN "Comment not found"
    ELSE "ok"

\* The error an addReply / resolve call throws, or "ok"
commentOutcome(u, c) ==
    IF u = NoUser THEN "Not authenticated"
    ELSE IF c \notin CommentIds \/ comments[c].ownerId # u THEN "Comment not found"
    ELSE "ok"

addReplyOutcome(u, c) == commentOutcome(u, c)

\* Mutant: the reply puts the comment back in awaiting_input
addReply_awaiting(u, c, content) ==
    IF addReplyOutcome(u, c) # "ok" THEN UNCHANGED vars
    ELSE
    /\ Len(scheduled) < MaxJobs
    /\ commentMessages' = Append(commentMessages,
         [commentId |-> c, role |-> "user", content |-> content])
    /\ comments' = [comments EXCEPT ![c].status = "awaiting_input"]
    /\ scheduled' = Append(scheduled,
         newJob("generateReply", c, comments[c].documentId, "none", u, "addReply"))
    /\ UNCHANGED << documents, documentSettings, now, origin, sources, indexJobs, rag, editor >>

addReply(u, c, content) ==
    IF addReplyOutcome(u, c) # "ok" THEN UNCHANGED vars
    ELSE
    /\ Len(scheduled) < MaxJobs
    /\ commentMessages' = Append(commentMessages,
         [commentId |-> c, role |-> "user", content |-> content])
    /\ comments' = [comments EXCEPT ![c].status = "pending"]
    /\ scheduled' = Append(scheduled,
         newJob("generateReply", c, comments[c].documentId, "none", u, "addReply"))
    /\ UNCHANGED << documents, documentSettings, now, origin, sources, indexJobs, rag, editor >>

resolveOutcome(u, c) == commentOutcome(u, c)

resolve(u, c) ==
    IF resolveOutcome(u, c) # "ok" THEN UNCHANGED vars
    ELSE
    /\ comments' = [comments EXCEPT ![c].resolvedAt = now]
    /\ UNCHANGED << documents, documentSettings, commentMessages, scheduled,
                    now, origin, sources, indexJobs, rag, editor >>

\* ------------------------------------------------------------------------
\* Manual-comment flow (api.comments.createWithoutAI / addInitialMessage)
\* ------------------------------------------------------------------------
createWithoutAI(u, d, tok, sel) ==
    IF createOutcome(u, d) # "ok" THEN UNCHANGED vars
    ELSE
    /\ userCreated < MaxComments
    /\ comments' = Append(comments,
         [documentId |-> d, commentId |-> tok, selectedText |-> sel,
          status |-> "awaiting_input", ownerId |-> u,
          resolvedAt |-> Undefined])
    /\ origin' = Append(origin, "createWithoutAI")
    /\ UNCHANGED << documents, documentSettings, commentMessages, scheduled, now, sources, indexJobs, rag, editor >>

addInitialMessageOutcome(u, c) ==
    IF commentOutcome(u, c) # "ok" THEN commentOutcome(u, c)
    ELSE IF comments[c].status # "awaiting_input" THEN "Comment is not awaiting input"
    ELSE "ok"

addInitialMessage(u, c, content) ==
    IF addInitialMessageOutcome(u, c) # "ok" THEN UNCHANGED vars
    ELSE
    /\ Len(scheduled) < MaxJobs
    /\ commentMessages' = Append(commentMessages,
         [commentId |-> c, role |-> "user", content |-> content])
    /\ comments' = [comments EXCEPT ![c].status = "pending"]
    /\ scheduled' = Append(scheduled,
         newJob("generateReply", c, comments[c].documentId, "none", u,
                "addInitialMessage"))
    /\ UNCHANGED << documents, documentSettings, now, origin, sources, indexJobs, rag, editor >>

\* ------------------------------------------------------------------------
\* Scheduled actions generateAIResponse / generateReply, one await per step
\* ------------------------------------------------------------------------
jobFrame == UNCHANGED << documents, documentSettings, now, origin, sources, indexJobs, rag, editor >>

\* Mutant: the job starts without writing the streaming status
jobSetStreaming_skip(j) ==
    /\ scheduled[j].pc = "scheduled"
    /\ LET c == scheduled[j].commentDbId IN
       scheduled' = [scheduled EXCEPT
            ![j].pc = IF scheduled[j].fn = "generateReply"
                      THEN "getCommentWithMessages" ELSE "createThread",
            ![j].startCount = Cardinality(assistantMessagesOf(c))]
    /\ UNCHANGED << comments, commentMessages >>
    /\ jobFrame

\* try: runMutation(updateCommentStatus, "streaming")
jobSetStreaming(j) ==
    /\ scheduled[j].pc = "scheduled"
    /\ LET c == scheduled[j].commentDbId IN
       /\ comments' = updateCommentStatus(c, "streaming")
       /\ scheduled' = [scheduled EXCEPT
            ![j].pc = IF scheduled[j].fn = "generateReply"
                      THEN "getCommentWithMessages" ELSE "createThread",
            ![j].startCount = Cardinality(assistantMessagesOf(c))]
    /\ UNCHANGED commentMessages
    /\ jobFrame

\* generateReply only: runQuery(getCommentWithMessages); null throws
jobGetCommentWithMessages(j) ==
    /\ scheduled[j].pc = "getCommentWithMessages"
    /\ LET comment == getCommentWithMessages(scheduled[j].commentDbId) IN
       scheduled' = [scheduled EXCEPT
            ![j].pc = IF comment = Null THEN "catch" ELSE "createThread",
            ![j].prompt = comment]
    /\ UNCHANGED << comments, commentMessages >>
    /\ jobFrame

\* daimon.createThread: returns a thread id or throws
jobCreateThread(j, ok) ==
    /\ scheduled[j].pc = "createThread"
    /\ scheduled' = [scheduled EXCEPT ![j].pc = IF ok THEN "generateText" ELSE "catch"]
    /\ UNCHANGED << comments, commentMessages >>
    /\ jobFrame

\* daimon.generateText: returns result.text or throws
jobGenerateText(j, result) ==
    /\ scheduled[j].pc = "generateText"
    /\ scheduled' = [scheduled EXCEPT
         ![j].pc = IF result = Throw THEN "catch" ELSE "saveAIMessage",
         ![j].text = result,
         ![j].calls = @ + 1]
    /\ UNCHANGED << comments, commentMessages >>
    /\ jobFrame

\* runMutation(saveAIMessage, result.text)
jobSaveAIMessage(j) ==
    /\ scheduled[j].pc = "saveAIMessage"
    /\ commentMessages' = saveAIMessage(scheduled[j].commentDbId, scheduled[j].text)
    /\ scheduled' = [scheduled EXCEPT ![j].pc = "setComplete", ![j].saved = TRUE]
    /\ UNCHANGED comments
    /\ jobFrame

\* runMutation(updateCommentStatus, "complete")
jobSetComplete(j) ==
    /\ scheduled[j].pc = "setComplete"
    /\ comments' = updateCommentStatus(scheduled[j].commentDbId, "complete")
    /\ scheduled' = [scheduled EXCEPT ![j].pc = "done"]
    /\ UNCHANGED commentMessages
    /\ jobFrame

\* Mutant: the catch block only logs the error
jobCatch_silent(j) ==
    /\ scheduled[j].pc = "catch"
    /\ scheduled' = [scheduled EXCEPT
         ![j].pc = "failed",
         ![j].endCount = Cardinality(assistantMessagesOf(scheduled[j].commentDbId))]
    /\ UNCHANGED << comments, commentMessages >>
    /\ jobFrame

\* catch: runMutation(updateCommentStatus, "error")
jobCatch(j) ==
    /\ scheduled[j].pc = "catch"
    /\ comments' = updateCommentStatus(scheduled[j].commentDbId, "error")
    /\ scheduled' = [scheduled EXCEPT
         ![j].pc = "failed",
         ![j].endCount = Cardinality(assistantMessagesOf(scheduled[j].commentDbId))]
    /\ UNCHANGED commentMessages
    /\ jobFrame

\* ------------------------------------------------------------------------
\* documents.createOnboardingDocument
\* ------------------------------------------------------------------------
onboardingDocs == Cardinality({ c \in CommentIds : origin[c] = "createOnboardingDocument" })

RECURSIVE onboardingComments(_, _, _)
onboardingComments(u, d, k) ==
    IF k = 0 THEN << >>
    ELSE Append(onboardingComments(u, d, k - 1),
         [documentId |-> d, commentId |-> OnboardingTokens[k],
          selectedText |-> OnboardingSections[k], status |-> "complete",
          ownerId |-> u, resolvedAt |-> Undefined])

RECURSIVE onboardingMessages(_, _)
onboardingMessages(first, k) ==
    IF k = 0 THEN << >>
    ELSE Append(onboardingMessages(first, k - 1),
         [commentId |-> first + (k - 1), role |-> "assistant",
          content |-> "onboarding help"])

createOnboardingDocument(u, preset) ==
    IF u = NoUser THEN UNCHANGED vars
    ELSE
    /\ onboardingDocs < MaxOnboarding * Len(OnboardingSections)
    /\ LET documentId == Len(documents) + 1
           n == Len(OnboardingSections) IN
       /\ documents' = Append(documents,
            [ownerId |-> u, title |-> "Getting Started with Daimon",
             content |-> OnboardingContent, isArchived |-> Unset,
             deleted |-> FALSE])
       /\ documentSettings' =
            IF preset = NoPreset THEN documentSettings
            ELSE Append(documentSettings,
                 [documentId |-> documentId, ownerId |-> u, model |-> preset.model,
                  provider |-> preset.provider, temperature |-> preset.temperature,
                  maxSteps |-> preset.maxSteps, systemPrompt |-> preset.systemPrompt,
                  description |-> preset.description, tools |-> preset.tools,
                  updatedAt |-> now])
       /\ comments' = comments \o onboardingComments(u, documentId, n)
       /\ commentMessages' = commentMessages \o onboardingMessages(Len(comments) + 1, n)
       /\ origin' = origin \o [k \in 1..n |-> "createOnboardingDocument"]
    /\ UNCHANGED << scheduled, now, sources, indexJobs, rag, editor >>

Tick ==
    /\ now < MaxTime
    /\ now' = now + 1
    /\ UNCHANGED << documents, documentSettings, comments, commentMessages,
                    scheduled, origin, sources, indexJobs, rag, editor >>

\* Steps of the scheduled generation actions
jobNext ==
    \/ \E j \in JobIds : jobSetStreaming(j)
    \/ \E j \in JobIds : jobGetCommentWithMessages(j)
    \/ \E j \in JobIds, ok \in BOOLEAN : jobCreateThread(j, ok)
    \/ \E j \in JobIds, result \in AITexts \cup {Throw} : jobGenerateText(j, result)
    \/ \E j \in JobIds : jobSaveAIMessage(j)
    \/ \E j \in JobIds : jobSetComplete(j)
    \/ \E j \in JobIds : jobCatch(j)

summonNext ==
    \/ \E u \in Callers, d \in DocIds, tok \in Tokens, sel \in SelTexts : create(u, d, tok, sel)
    \/ \E u \in Callers, c \in CommentIds, content \in ReplyTexts : addReply(u, c, content)

manualNext ==
    \/ \E u \in Callers, d \in DocIds, tok \in Tokens, sel \in SelTexts : createWithoutAI(u, d, tok, sel)
    \/ \E u \in Callers, c \in CommentIds, content \in ReplyTexts : addInitialMessage(u, c, content)

\* The comment state machine with resolution and the clock
Next ==
    \/ summonNext
    \/ manualNext
    \/ jobNext
    \/ \E u \in Callers, c \in CommentIds : resolve(u, c)
    \/ Tick

Spec == Init /\ [][Next]_vars

\* The comment state machine with onboarding documents
NextOnboarding ==
    \/ summonNext
    \/ jobNext
    \/ \E u \in Callers, preset \in {NoPreset, OnboardingPreset} : createOnboardingDocument(u, preset)

SpecOnboarding == Init /\ [][NextOnboarding]_vars

\* ------------------------------------------------------------------------
\* Public functions of convex/documents.ts
\* ------------------------------------------------------------------------
\* What is left of a row after ctx.db.delete
Tombstone ==
    [ownerId |-> NoUser, title |-> Unset, content |-> Unset,
     isArchived |-> Unset, deleted |-> TRUE]

\* The row ctx.db.insert("documents", ...) writes
newDocument(u, title, content) ==
    [ownerId |-> u, title |-> title,
     content |-> IF content = Unset THEN EmptyDoc ELSE content,
     isArchived |-> Unset, deleted |-> FALSE]

\* query documents.get: the row, or null
documents_get(u, d) ==
    IF u = NoUser THEN Null
    ELSE IF ~documentOwned(u, d) THEN Null
    ELSE [_id |-> d, title |-> documents[d].title,
          content |-> documents[d].content, ownerId |-> documents[d].ownerId,
          isArchived |-> documents[d].isArchived]

documents_create(u, title, content) ==
    IF u = NoUser THEN UNCHANGED vars
    ELSE
    /\ Len(documents) < MaxDocs
    /\ documents' = Append(documents, newDocument(u, title, content))
    /\ UNCHANGED << documentSettings, comments, commentMessages, scheduled,
                    now, origin, sources, indexJobs, rag, editor >>

\* The error update / remove / archive / restore throw, or "ok"
documentOutcome(u, d) ==
    IF u = NoUser THEN "Not authenticated"
    ELSE IF ~documentOwned(u, d) THEN "Document not found or access denied"
    ELSE "ok"

documentsFrame ==
    UNCHANGED << documentSettings, comments, commentMessages, scheduled, now,
                 origin, sources, indexJobs, rag, editor >>

\* ctx.db.patch(args.id, updates): only the fields that were passed
patchDocument(d, title, content) ==
    [documents EXCEPT
         ![d].title = IF title = Unset THEN @ ELSE title,
         ![d].content = IF content = Unset THEN @ ELSE content]

documents_update(u, d, title, content) ==
    IF documentOutcome(u, d) # "ok" THEN UNCHANGED vars
    ELSE
    /\ documents' = patchDocument(d, title, content)
    /\ documentsFrame

\* ctx.db.delete(args.id), and nothing else
documents_remove(u, d) ==
    IF documentOutcome(u, d) # "ok" THEN UNCHANGED vars
    ELSE
    /\ documents' = [documents EXCEPT ![d] = Tombstone]
    /\ documentsFrame

archive(u, d) ==
    IF documentOutcome(u, d) # "ok" THEN UNCHANGED vars
    ELSE
    /\ documents' = [documents EXCEPT ![d].isArchived = "true"]
    /\ documentsFrame

restore(u, d) ==
    IF documentOutcome(u, d) # "ok" THEN UNCHANGED vars
    ELSE
    /\ documents' = [documents EXCEPT ![d].isArchived = "false"]
    /\ documentsFrame

\* ------------------------------------------------------------------------
\* convex/documentSettings.ts
\* ------------------------------------------------------------------------
DEFAULT_SYSTEM_PROMPT == "You are Daimon, a thoughtful writing companion"
DEFAULT_SETTINGS ==
    [model |-> "claude-sonnet-4-5-20250826", provider |-> "anthropic",
     temperature |-> 7, maxSteps |-> 5,
     tools |-> [searchSources |-> TRUE, webSearch |-> FALSE, citation |-> FALSE]]

\* query("documentSettings").withIndex("by_documentId").first(): id or Undefined
settingsOf(d) == { i \in 1..Len(documentSettings) : documentSettings[i].documentId = d }
firstSettings(d) == IF settingsOf(d) = {} THEN Undefined ELSE Min(settingsOf(d))

\* The fields a settings row is written with
settingsRow(d, u, s) ==
    [documentId |-> d, ownerId |-> u, model |-> s.model, provider |-> s.provider,
     temperature |-> s.temperature, maxSteps |-> s.maxSteps,
     systemPrompt |-> s.systemPrompt, description |-> s.description,
     tools |-> s.tools, updatedAt |-> now]

\* Mutant: a patch with an undefined description keeps the old description
patchSettings_keep(i, s) ==
    [documentSettings EXCEPT ![i] =
        [settingsRow(documentSettings[i].documentId, documentSettings[i].ownerId, s)
            EXCEPT !.description =
                IF s.description = Unset THEN documentSettings[i].description
                ELSE s.description]]

\* ctx.db.patch(id, {...}): documentId and ownerId stay, an undefined
\* description removes the field
patchSettings(i, s) ==
    [documentSettings EXCEPT ![i] =
        settingsRow(documentSettings[i].documentId, documentSettings[i].ownerId, s)]

\* Mutant: a document without a settings row has no settings
documentSettings_get_null(u, d) ==
    IF u = NoUser THEN Null
    ELSE IF ~documentOwned(u, d) THEN Null
    ELSE LET i == firstSettings(d) IN
         IF i # Undefined
         THEN [_id |-> i, documentId |-> documentSettings[i].documentId,
               model |-> documentSettings[i].model,
               provider |-> documentSettings[i].provider,
               temperature |-> documentSettings[i].temperature,
               maxSteps |-> documentSettings[i].maxSteps,
               systemPrompt |-> documentSettings[i].systemPrompt,
               description |-> documentSettings[i].description,
               tools |-> documentSettings[i].tools,
               hasCustomSettings |-> TRUE]
         ELSE Null

\* query documentSettings.get
documentSettings_get(u, d) ==
    IF u = NoUser THEN Null
    ELSE IF ~documentOwned(u, d) THEN Null
    ELSE LET i == firstSettings(d) IN
         IF i # Undefined
         THEN [_id |-> i, documentId |-> documentSettings[i].documentId,
               model |-> documentSettings[i].model,
               provider |-> documentSettings[i].provider,
               temperature |-> documentSettings[i].temperature,
               maxSteps |-> documentSettings[i].maxSteps,
               systemPrompt |-> documentSettings[i].systemPrompt,
               description |-> documentSettings[i].description,
               tools |-> documentSettings[i].tools,
               hasCustomSettings |-> TRUE]
         ELSE [_id |-> Undefined, documentId |-> d,
               model |-> DEFAULT_SETTINGS.model,
               provider |-> DEFAULT_SETTINGS.provider,
               temperature |-> DEFAULT_SETTINGS.temperature,
               maxSteps |-> DEFAULT_SETTINGS.maxSteps,
               systemPrompt |-> DEFAULT_SYSTEM_PROMPT,
               description |-> Unset,
               tools |-> DEFAULT_SETTINGS.tools,
               hasCustomSettings |-> FALSE]

\* Mutant: the range checks are strict, rejecting the bounds themselves
upsertOutcome_strict(u, d, s) ==
    IF u = NoUser THEN "Not authenticated"
    ELSE IF ~documentOwned(u, d) THEN "Document not found or access denied"
    ELSE IF s.temperature <= 0 \/ s.temperature >= 20
         THEN "Temperature must be between 0 and 2"
    ELSE IF s.maxSteps <= 1 \/ s.maxSteps >= 10
         THEN "Max steps must be between 1 and 10"
    ELSE "ok"

\* The error an upsert call throws, or "ok"
upsertOutcome(u, d, s) ==
    IF u = NoUser THEN "Not authenticated"
    ELSE IF ~documentOwned(u, d) THEN "Document not found or access denied"
    ELSE IF s.temperature < 0 \/ s.temperature > 20
         THEN "Temperature must be between 0 and 2"
    ELSE IF s.maxSteps < 1 \/ s.maxSteps > 10
         THEN "Max steps must be between 1 and 10"
    ELSE "ok"

settingsFrame ==
    UNCHANGED << documents, comments, commentMessages, scheduled, now, origin,
                 sources, indexJobs, rag, editor >>

\* Mutant: the row is inserted without looking for an existing one
upsert_insert(u, d, s) ==
    IF upsertOutcome(u, d, s) # "ok" THEN UNCHANGED vars
    ELSE
    /\ documentSettings' = Append(documentSettings, settingsRow(d, u, s))
    /\ settingsFrame

upsert(u, d, s) ==
    IF upsertOutcome(u, d, s) # "ok" THEN UNCHANGED vars
    ELSE
    /\ LET existing == firstSettings(d) IN
       documentSettings' =
          IF existing # Undefined THEN patchSettings(existing, s)
          ELSE Append(documentSettings, settingsRow(d, u, s))
    /\ settingsFrame

\* The error a copyFrom call throws, or "ok"
copyFromOutcome(u, target, source) ==
    IF u = NoUser THEN "Not authenticated"
    ELSE IF ~documentOwned(u, target) THEN "Target document not found or access denied"
    ELSE IF ~documentOwned(u, source) THEN "Source document not found or access denied"
    ELSE "ok"

\* sourceSettings || defaults
settingsToApply(source) ==
    LET i == firstSettings(source) IN
    IF i # Undefined THEN documentSettings[i]
    ELSE [model |-> DEFAULT_SETTINGS.model, provider |-> DEFAULT_SETTINGS.provider,
          temperature |-> DEFAULT_SETTINGS.temperature,
          maxSteps |-> DEFAULT_SETTINGS.maxSteps,
          systemPrompt |-> DEFAULT_SYSTEM_PROMPT, description |-> Unset,
          tools |-> DEFAULT_SETTINGS.tools]

copyFrom(u, target, source) ==
    IF copyFromOutcome(u, target, source) # "ok" THEN UNCHANGED vars
    ELSE
    /\ LET existingTarget == firstSettings(target) IN
       documentSettings' =
          IF existingTarget # Undefined
          THEN patchSettings(existingTarget, settingsToApply(source))
          ELSE Append(documentSettings,
                      settingsRow(target, u, settingsToApply(source)))
    /\ settingsFrame

\* documents.createWithPreset: the preset is stored as given
createWithPreset(u, title, content, preset) ==
    IF u = NoUser THEN UNCHANGED vars
    ELSE
    /\ Len(documents) < MaxDocs
    /\ LET documentId == Len(documents) + 1 IN
       /\ documents' = Append(documents, newDocument(u, title, content))
       /\ documentSettings' =
            IF preset = NoPreset THEN documentSettings
            ELSE Append(documentSettings, settingsRow(documentId, u, preset))
    /\ UNCHANGED << comments, commentMessages, scheduled, now, origin,
                    sources, indexJobs, rag, editor >>

\* The error a createWithCopy call throws, or "ok"
createWithCopyOutcome(u, source) ==
    IF u = NoUser THEN "Not authenticated"
    ELSE IF ~documentOwned(u, source) THEN "Source document not found or access denied"
    ELSE "ok"

createWithCopy(u, title, content, source) ==
    IF createWithCopyOutcome(u, source) # "ok" THEN UNCHANGED vars
    ELSE
    /\ Len(documents) < MaxDocs
    /\ LET documentId == Len(documents) + 1
           sourceSettings == firstSettings(source) IN
       /\ documents' = Append(documents, newDocument(u, title, content))
       /\ documentSettings' =
            IF sourceSettings = Undefined THEN documentSettings
            ELSE Append(documentSettings,
                        settingsRow(documentId, u, documentSettings[sourceSettings]))
    /\ UNCHANGED << comments, commentMessages, scheduled, now, origin,
                    sources, indexJobs, rag, editor >>

\* Arguments of the settings mutations
\* <<temperature, maxSteps>>: each bound, and one step outside each bound
RangeCases ==
    { <<-1, 1>>, <<21, 10>>, <<0, 0>>, <<20, 11>>, <<0, 1>>, <<20, 10>> }
settingsInput(t, m) ==
    [model |-> IF m <= 1 THEN "claude-haiku-4-5-20241022" ELSE "gpt-5.2",
     provider |-> IF m <= 1 THEN "anthropic" ELSE "openai",
     temperature |-> t, maxSteps |-> m,
     systemPrompt |-> IF t <= 0 THEN DEFAULT_SYSTEM_PROMPT ELSE "Be terse.",
     description |-> IF t <= 0 THEN Unset ELSE "A blog about stoicism",
     tools |-> [searchSources |-> m <= 1, webSearch |-> t > 0, citation |-> FALSE]]
SettingsInputs == { settingsInput(p[1], p[2]) : p \in RangeCases }
\* A preset the validator accepts: temperature and maxSteps are any number
UncheckedPreset ==
    [model |-> "o4-mini", provider |-> "openai", temperature |-> 35,
     maxSteps |-> 50, systemPrompt |-> "preset prompt",
     description |-> "", tools |-> [searchSources |-> FALSE, webSearch |-> FALSE, citation |-> TRUE]]
Presets == {NoPreset, OnboardingPreset, UncheckedPreset}
NewTitles == {"Untitled"}
Titles == {Unset, "Essay"}

\* ------------------------------------------------------------------------
\* Queries of convex/comments.ts
\* ------------------------------------------------------------------------
\* .withIndex("by_documentId").filter(resolvedAt = undefined).collect()
openCommentsOf(d) ==
    { c \in CommentIds : comments[c].documentId = d /\ comments[c].resolvedAt = Undefined }

RECURSIVE collectComments(_, _)
collectComments(k, d) ==
    IF k = 0 THEN << >>
    ELSE IF k \in openCommentsOf(d)
         THEN Append(collectComments(k - 1, d),
                     [_id |-> k, documentId |-> comments[k].documentId,
                      commentId |-> comments[k].commentId,
                      selectedText |-> comments[k].selectedText,
                      status |-> comments[k].status, ownerId |-> comments[k].ownerId,
                      messages |-> collectMessages(commentMessages, k)])
         ELSE collectComments(k - 1, d)

listByDocument(u, d) ==
    IF u = NoUser THEN << >>
    ELSE IF ~documentOwned(u, d) THEN << >>
    ELSE collectComments(Len(comments), d)

\* Mutant: the count is given to any authenticated user
countByDocument_anyone(u, d) ==
    IF u = NoUser THEN 0
    ELSE Cardinality(openCommentsOf(d))

countByDocument(u, d) ==
    IF u = NoUser THEN 0
    ELSE IF ~documentOwned(u, d) THEN 0
    ELSE Cardinality(openCommentsOf(d))

\* ------------------------------------------------------------------------
\* convex/sources.ts
\* ------------------------------------------------------------------------
SourceIds == 1..Len(sources)
IndexJobIds == 1..Len(indexJobs)
Texts == {"", "   ", "quoted passage"}
Urls == {"https://example.com/post", "not a url"}
\* String.prototype.trim on the texts above
trim(t) == IF t \in {"", "   "} THEN "" ELSE t
\* new URL(url) returns, or throws
validURL(url) == url = "https://example.com/post"
\* urlObj.hostname + urlObj.pathname
initialTitle(url) == "example.com/post"

\* ctx.db.get(sourceId): the row, or null for a deleted source
liveSource(s) == s \in SourceIds /\ ~sources[s].deleted
sourcesOf(d) == { s \in SourceIds : liveSource(s) /\ sources[s].documentId = d }

\* ctx.db.insert("sources", ...) with status "processing"
newSource(u, d, sourceType, title, url, storageId) ==
    [documentId |-> d, sourceType |-> sourceType, title |-> title, url |-> url,
     storageId |-> storageId, status |-> "processing", ownerId |-> u,
     ragEntryId |-> Undefined, errorMessage |-> Unset, deleted |-> FALSE]

\* ctx.scheduler.runAfter(0, internal.sourcesActions.<fn>, args)
newIndexJob(fn, s, d, title, extractedText, url, ragEntryId) ==
    [fn |-> fn, sourceId |-> s, documentId |-> d, title |-> title,
     extractedText |-> extractedText, url |-> url, ragEntryId |-> ragEntryId,
     pc |-> "scheduled", entryId |-> Undefined, error |-> Unset]

\* The error the ownership checks of the create mutations throw, or "ok"
createSourceOutcome(u, d) ==
    IF u = NoUser THEN "Not authenticated"
    ELSE IF ~documentOwned(u, d) THEN "Document not found or not authorized"
    ELSE "ok"

sourcesFrame ==
    UNCHANGED << documents, documentSettings, comments, commentMessages,
                 scheduled, now, origin, editor >>

createFileSource(u, d, filename, extractedText) ==
    IF createSourceOutcome(u, d) # "ok" THEN UNCHANGED vars
    ELSE
    /\ Len(sources) < MaxSources
    /\ LET sourceId == Len(sources) + 1 IN
       /\ sources' = Append(sources,
            newSource(u, d, "file", filename, Unset, "storage-id"))
       /\ indexJobs' = Append(indexJobs,
            newIndexJob("indexSource", sourceId, d, filename, extractedText,
                        Unset, Undefined))
    /\ UNCHANGED rag
    /\ sourcesFrame

createWebSourceOutcome(u, d, url) ==
    IF createSourceOutcome(u, d) # "ok" THEN createSourceOutcome(u, d)
    ELSE IF ~validURL(url) THEN "Invalid URL"
    ELSE "ok"

createWebSource(u, d, url) ==
    IF createWebSourceOutcome(u, d, url) # "ok" THEN UNCHANGED vars
    ELSE
    /\ Len(sources) < MaxSources
    /\ LET sourceId == Len(sources) + 1 IN
       /\ sources' = Append(sources,
            newSource(u, d, "web", initialTitle(url), url, Unset))
       /\ indexJobs' = Append(indexJobs,
            newIndexJob("scrapeAndIndexWebSource", sourceId, d, Unset, Unset,
                        url, Undefined))
    /\ UNCHANGED rag
    /\ sourcesFrame

\* Mutant: the text is compared with "" without being trimmed
createTextSourceOutcome_noTrim(u, d, text) ==
    IF createSourceOutcome(u, d) # "ok" THEN createSourceOutcome(u, d)
    ELSE IF text = "" THEN "Text content cannot be empty"
    ELSE "ok"

createTextSourceOutcome(u, d, text) ==
    IF createSourceOutcome(u, d) # "ok" THEN createSourceOutcome(u, d)
    ELSE IF trim(text) = "" THEN "Text content cannot be empty"
    ELSE "ok"

createTextSource(u, d, title, text) ==
    IF createTextSourceOutcome(u, d, text) # "ok" THEN UNCHANGED vars
    ELSE
    /\ Len(sources) < MaxSources
    /\ LET sourceId == Len(sources) + 1
           t == IF title = "" THEN "Pasted text" ELSE title IN
       /\ sources' = Append(sources, newSource(u, d, "text", t, Unset, Unset))
       /\ indexJobs' = Append(indexJobs,
            newIndexJob("indexSource", sourceId, d, t, text, Unset, Undefined))
    /\ UNCHANGED rag
    /\ sourcesFrame

\* query sources.countByDocument
sources_countByDocument(u, d) ==
    IF u = NoUser THEN 0
    ELSE IF ~documentOwned(u, d) THEN 0
    ELSE Cardinality(sourcesOf(d))

RECURSIVE collectSources(_, _)
collectSources(k, d) ==
    IF k = 0 THEN << >>
    ELSE IF k \in sourcesOf(d)
         THEN Append(collectSources(k - 1, d),
                     [_id |-> k, sourceType |-> sources[k].sourceType,
                      title |-> sources[k].title, url |-> sources[k].url,
                      status |-> sources[k].status,
                      errorMessage |-> sources[k].errorMessage])
         ELSE collectSources(k - 1, d)

\* query sources.listByDocument
sources_listByDocument(u, d) ==
    IF u = NoUser THEN << >>
    ELSE IF ~documentOwned(u, d) THEN << >>
    ELSE collectSources(Len(sources), d)

\* The error a sources.remove call throws, or "ok"
sources_removeOutcome(u, s) ==
    IF u = NoUser THEN "Not authenticated"
    ELSE IF ~liveSource(s) \/ sources[s].ownerId # u THEN "Source not found or not authorized"
    ELSE "ok"

\* Mutant: the cleanup is scheduled whether or not an entry was recorded
sources_remove_always(u, s) ==
    IF sources_removeOutcome(u, s) # "ok" THEN UNCHANGED vars
    ELSE
    /\ sources' = [sources EXCEPT ![s].deleted = TRUE]
    /\ indexJobs' =
         Append(indexJobs,
                newIndexJob("cleanupRagEntries", s, sources[s].documentId, Unset,
                            Unset, Unset, sources[s].ragEntryId))
    /\ UNCHANGED rag
    /\ sourcesFrame

\* sources.remove: the row is deleted (the stored file too, which is not
\* modelled) and the index entry, if recorded, is cleaned up by a job
sources_remove(u, s) ==
    IF sources_removeOutcome(u, s) # "ok" THEN UNCHANGED vars
    ELSE
    /\ sources' = [sources EXCEPT ![s].deleted = TRUE]
    /\ indexJobs' =
         IF sources[s].ragEntryId # Undefined
         THEN Append(indexJobs,
                newIndexJob("cleanupRagEntries", s, sources[s].documentId, Unset,
                            Unset, Unset, sources[s].ragEntryId))
         ELSE indexJobs
    /\ UNCHANGED rag
    /\ sourcesFrame

\* internalMutation updateStatus: ctx.db.patch(sourceId, patch)
updateStatus(s, status, ragEntryId, errorMessage) ==
    [sources EXCEPT
        ![s].status = status,
        ![s].errorMessage = IF errorMessage # Unset THEN errorMessage ELSE @,
        ![s].ragEntryId = IF ragEntryId # Undefined THEN ragEntryId ELSE @]

\* internalMutation updateTitle
updateTitle(s, title) == [sources EXCEPT ![s].title = title]

\* ------------------------------------------------------------------------
\* convex/sourcesActions.ts, one await per step, and the RAG component
\* ------------------------------------------------------------------------
ScrapeResults == {Throw, "", "# Post"}

\* rag.add(ctx, {namespace, key, ...}): a new entry of the namespace
ragAdd(namespace, key) ==
    Append(rag, [namespace |-> namespace, key |-> key, deleted |-> FALSE])

\* Mutant: the text is indexed without the emptiness check
indexSource_noCheck(j, ok) ==
    /\ indexJobs[j].fn = "indexSource"
    /\ indexJobs[j].pc = "scheduled"
    /\ IF ok
       THEN /\ rag' = ragAdd(indexJobs[j].documentId, indexJobs[j].sourceId)
            /\ indexJobs' = [indexJobs EXCEPT ![j].pc = "updateStatus",
                                ![j].entryId = Len(rag) + 1]
       ELSE /\ indexJobs' = [indexJobs EXCEPT ![j].pc = "catch",
                                ![j].error = "rag.add failed"]
            /\ UNCHANGED rag
    /\ UNCHANGED sources
    /\ sourcesFrame

\* indexSource: the emptiness check and rag.add
indexSource(j, ok) ==
    /\ indexJobs[j].fn = "indexSource"
    /\ indexJobs[j].pc = "scheduled"
    /\ IF trim(indexJobs[j].extractedText) = ""
       THEN /\ indexJobs' = [indexJobs EXCEPT ![j].pc = "catch",
                                ![j].error = "No text content provided"]
            /\ UNCHANGED rag
       ELSE IF ok
       THEN /\ rag' = ragAdd(indexJobs[j].documentId, indexJobs[j].sourceId)
            /\ indexJobs' = [indexJobs EXCEPT ![j].pc = "updateStatus",
                                ![j].entryId = Len(rag) + 1]
       ELSE /\ indexJobs' = [indexJobs EXCEPT ![j].pc = "catch",
                                ![j].error = "rag.add failed"]
            /\ UNCHANGED rag
    /\ UNCHANGED sources
    /\ sourcesFrame

\* scrapeAndIndexWebSource: the API key check and firecrawl.scrape
scrapeAndIndexWebSource(j, result) ==
    /\ indexJobs[j].fn = "scrapeAndIndexWebSource"
    /\ indexJobs[j].pc = "scheduled"
    /\ indexJobs' =
         IF result = Throw
         THEN [indexJobs EXCEPT ![j].pc = "catch", ![j].error = "Failed to scrape URL"]
         ELSE IF trim(result) = ""
         THEN [indexJobs EXCEPT ![j].pc = "catch",
                                ![j].error = "No content extracted from URL"]
         ELSE [indexJobs EXCEPT ![j].pc = "updateTitle", ![j].title = "Post",
                                ![j].extractedText = result]
    /\ UNCHANGED << sources, rag >>
    /\ sourcesFrame

\* runMutation(updateTitle); a patch of a deleted row throws
jobUpdateTitle(j) ==
    /\ indexJobs[j].pc = "updateTitle"
    /\ IF liveSource(indexJobs[j].sourceId)
       THEN /\ sources' = updateTitle(indexJobs[j].sourceId, indexJobs[j].title)
            /\ indexJobs' = [indexJobs EXCEPT ![j].pc = "ragAdd"]
       ELSE /\ indexJobs' = [indexJobs EXCEPT ![j].pc = "catch",
                                ![j].error = "Update on nonexistent document"]
            /\ UNCHANGED sources
    /\ UNCHANGED rag
    /\ sourcesFrame

\* scrapeAndIndexWebSource: rag.add of the scraped markdown
jobRagAdd(j, ok) ==
    /\ indexJobs[j].pc = "ragAdd"
    /\ IF ok
       THEN /\ rag' = ragAdd(indexJobs[j].documentId, indexJobs[j].sourceId)
            /\ indexJobs' = [indexJobs EXCEPT ![j].pc = "updateStatus",
                                ![j].entryId = Len(rag) + 1]
       ELSE /\ indexJobs' = [indexJobs EXCEPT ![j].pc = "catch",
                                ![j].error = "rag.add failed"]
            /\ UNCHANGED rag
    /\ UNCHANGED sources
    /\ sourcesFrame

\* runMutation(updateStatus, "indexed", entryId); a patch of a deleted row throws
jobUpdateStatus(j) ==
    /\ indexJobs[j].pc = "updateStatus"
    /\ IF liveSource(indexJobs[j].sourceId)
       THEN /\ sources' = updateStatus(indexJobs[j].sourceId, "indexed",
                                       indexJobs[j].entryId, Unset)
            /\ indexJobs' = [indexJobs EXCEPT ![j].pc = "done"]
       ELSE /\ indexJobs' = [indexJobs EXCEPT ![j].pc = "catch",
                                ![j].error = "Update on nonexistent document"]
            /\ UNCHANGED sources
    /\ UNCHANGED rag
    /\ sourcesFrame

\* Mutant: the catch block only logs the error
indexCatch_silent(j) ==
    /\ indexJobs[j].pc = "catch"
    /\ indexJobs' = [indexJobs EXCEPT ![j].pc = "failed"]
    /\ UNCHANGED << sources, rag >>
    /\ sourcesFrame

\* catch: runMutation(updateStatus, "error", message); a throw here ends the
\* action with an unhandled error
indexCatch(j) ==
    /\ indexJobs[j].pc = "catch"
    /\ IF liveSource(indexJobs[j].sourceId)
       THEN /\ sources' = updateStatus(indexJobs[j].sourceId, "error", Undefined,
                                       indexJobs[j].error)
            /\ indexJobs' = [indexJobs EXCEPT ![j].pc = "failed"]
       ELSE /\ indexJobs' = [indexJobs EXCEPT ![j].pc = "crashed"]
            /\ UNCHANGED sources
    /\ UNCHANGED rag
    /\ sourcesFrame

\* cleanupRagEntries: rag.delete, whose failure is logged and swallowed
cleanupRagEntries(j, ok) ==
    /\ indexJobs[j].fn = "cleanupRagEntries"
    /\ indexJobs[j].pc = "scheduled"
    /\ rag' = IF ok THEN [rag EXCEPT ![indexJobs[j].ragEntryId].deleted = TRUE]
              ELSE rag
    /\ indexJobs' = [indexJobs EXCEPT ![j].pc = "done"]
    /\ UNCHANGED sources
    /\ sourcesFrame

\* ------------------------------------------------------------------------
\* convex/aiAgent.ts: the searchSources tool of the agent
\* ------------------------------------------------------------------------
\* What the generation service may pass as the documentId argument: the id of
\* any document, or a string that names none
ToolDocumentIds == DocIds \cup {0}

\* rag.search(ctx, {namespace: documentId, query, limit}): the entries the
\* search can return
searchSourcesTool(documentId) ==
    { e \in 1..Len(rag) : rag[e].namespace = documentId /\ ~rag[e].deleted }

\* internalQuery documentSettings.getInternal: the stored row, else the defaults
getInternal(d) ==
    IF firstSettings(d) # Undefined
    THEN LET settings == documentSettings[firstSettings(d)] IN
         [documentId |-> settings.documentId, model |-> settings.model,
          provider |-> settings.provider, temperature |-> settings.temperature,
          maxSteps |-> settings.maxSteps, systemPrompt |-> settings.systemPrompt,
          description |-> settings.description, tools |-> settings.tools]
    ELSE [documentId |-> d, model |-> DEFAULT_SETTINGS.model,
          provider |-> DEFAULT_SETTINGS.provider,
          temperature |-> DEFAULT_SETTINGS.temperature,
          maxSteps |-> DEFAULT_SETTINGS.maxSteps,
          systemPrompt |-> DEFAULT_SYSTEM_PROMPT, description |-> Unset,
          tools |-> DEFAULT_SETTINGS.tools]

ToolNames == {"searchSources", "webSearch", "citation"}

\* createDaimonAgent(settings): the agent a document's settings describe.
\* instructions is the system prompt, followed by the description if any.
createDaimonAgent(settings) ==
    [languageModel |-> << settings.provider, settings.model >>,
     instructions |-> IF settings.description \notin {Unset, ""}
                      THEN << settings.systemPrompt, settings.description >>
                      ELSE << settings.systemPrompt >>,
     tools |-> { t \in ToolNames : settings.tools[t] },
     temperature |-> settings.temperature,
     maxSteps |-> settings.maxSteps]

\* The module-level agent daimon
daimon ==
    [languageModel |-> << "anthropic", "claude-sonnet-4-5-20250929" >>,
     instructions |-> << DEFAULT_SYSTEM_PROMPT >>,
     tools |-> {"searchSources"},
     temperature |-> 7,
     maxSteps |-> 5]

\* The agent whose generateText a generation job calls
generateTextAgent(j) == daimon

\* ------------------------------------------------------------------------
\* components/document-page.tsx: the auto-save of the page of document 1
\* ------------------------------------------------------------------------
PageDocument == 1
PageUser == "alice"
\* Editor documents (the text typed so far) and titles the user may type
EditorContents == {"a", "ab"}
EditorTitles == {"Essay"}

\* JSON.stringify(content) of an editor document
stringify(content) ==
    IF content = "" THEN EmptyDoc
    ELSE IF content = "a" THEN "{\"type\":\"doc\",\"content\":[\"a\"]}"
    ELSE "{\"type\":\"doc\",\"content\":[\"ab\"]}"

editorFrame ==
    UNCHANGED << documents, documentSettings, comments, commentMessages,
                 scheduled, now, origin, sources, indexJobs, rag >>

\* handleContentUpdate: mark unsaved, remember the content, restart the timer
handleContentUpdate(content) ==
    /\ editor.edits < MaxEdits
    /\ editor' = [editor EXCEPT
         !.content = content,
         !.saveStatus = "unsaved",
         !.pendingContentRef = stringify(content),
         !.saveTimeoutRef = TRUE,
         !.edits = @ + 1]
    /\ editorFrame

\* handleTitleChange: mark unsaved, restart the timer with the new title
handleTitleChange(newTitle) ==
    /\ editor.edits < MaxEdits
    /\ editor' = [editor EXCEPT
         !.title = newTitle,
         !.saveStatus = "unsaved",
         !.titleTimeoutRef = newTitle,
         !.edits = @ + 1]
    /\ editorFrame

\* The content timer fires: if content is pending, call updateDocument with it
saveTimeoutFires ==
    /\ editor.saveTimeoutRef
    /\ editor' =
         IF editor.pendingContentRef # Unset
         THEN [editor EXCEPT
                 !.saveTimeoutRef = FALSE,
                 !.saveStatus = "saving",
                 !.calls = Append(@, [title |-> Unset,
                                      content |-> editor.pendingContentRef])]
         ELSE [editor EXCEPT !.saveTimeoutRef = FALSE]
    /\ editorFrame

\* The title timer fires: call updateDocument with the title it captured
titleTimeoutFires ==
    /\ editor.titleTimeoutRef # Unset
    /\ editor' = [editor EXCEPT
         !.titleTimeoutRef = Unset,
         !.saveStatus = "saving",
         !.calls = Append(@, [title |-> editor.titleTimeoutRef,
                              content |-> Unset])]
    /\ editorFrame

\* The oldest updateDocument call runs documents.update and returns or
\* throws; the callback that awaited it resumes
updateReturns ==
    /\ editor.calls # << >>
    /\ LET call == Head(editor.calls)
           ok == documentOutcome(PageUser, PageDocument) = "ok" IN
       /\ documents' = IF ok
                        THEN patchDocument(PageDocument, call.title, call.content)
                        ELSE documents
       /\ editor' = [editor EXCEPT
            !.calls = Tail(@),
            !.saveStatus = IF ok THEN "saved" ELSE "unsaved",
            !.pendingContentRef = IF call.content # Unset THEN Unset ELSE @]
    /\ UNCHANGED << documentSettings, comments, commentMessages, scheduled, now,
                    origin, sources, indexJobs, rag >>

\* ------------------------------------------------------------------------
\* Specifications of the subsystems
\* ------------------------------------------------------------------------
settingsNext ==
    \/ \E u \in Callers, d \in DocIds, s \in SettingsInputs : upsert(u, d, s)
    \/ \E u \in Callers, target \in DocIds, source \in DocIds : copyFrom(u, target, source)

creationNext ==
    \/ \E u \in Callers, title \in NewTitles, preset \in Presets :
          createWithPreset(u, title, Unset, preset)
    \/ \E u \in Callers, title \in NewTitles, source \in DocIds :
          createWithCopy(u, title, Unset, source)

\* Document settings: every mutation that writes a documentSettings row
NextSettings ==
    \/ settingsNext
    \/ creationNext
    \/ \E u \in Callers, preset \in Presets : createOnboardingDocument(u, preset)
    \/ Tick

SpecSettings == Init /\ [][NextSettings]_vars


\* Steps of the scheduled indexing actions
indexNext ==
    \/ \E j \in IndexJobIds, ok \in BOOLEAN : indexSource(j, ok)
    \/ \E j \in IndexJobIds, result \in ScrapeResults : scrapeAndIndexWebSource(j, result)
    \/ \E j \in IndexJobIds : jobUpdateTitle(j)
    \/ \E j \in IndexJobIds, ok \in BOOLEAN : jobRagAdd(j, ok)
    \/ \E j \in IndexJobIds : jobUpdateStatus(j)
    \/ \E j \in IndexJobIds : indexCatch(j)
    \/ \E j \in IndexJobIds, ok \in BOOLEAN : cleanupRagEntries(j, ok)

\* Rows written so far to the four tables of the public API
rowsWritten ==
    Len(documents) + Len(comments) + Len(sources) + Len(documentSettings)
withinBudget == rowsWritten < MaxRows

\* The public mutations, called by every caller on every row, until MaxRows
\* rows have been written
NextAccess ==
    \/ withinBudget /\ \E u \in Callers, d \in DocIds, tok \in Tokens, sel \in SelTexts :
          create(u, d, tok, sel)
    \/ withinBudget /\ \E u \in Callers, c \in CommentIds, content \in ReplyTexts : addReply(u, c, content)
    \/ withinBudget /\ \E u \in Callers, c \in CommentIds : resolve(u, c)
    \/ withinBudget /\ \E u \in Callers, d \in DocIds, text \in Texts :
          createFileSource(u, d, "paper.pdf", text)
    \/ withinBudget /\ \E u \in Callers, d \in DocIds, url \in Urls :
          createWebSource(u, d, url)
    \/ withinBudget /\ \E u \in Callers, d \in DocIds, title \in {"", "Notes"}, text \in Texts :
          createTextSource(u, d, title, text)
    \/ withinBudget /\ \E u \in Callers, s \in SourceIds : sources_remove(u, s)
    \/ withinBudget /\ \E u \in Callers, d \in DocIds, s \in SettingsInputs : upsert(u, d, s)
    \/ withinBudget /\ \E u \in Callers, target \in DocIds, source \in DocIds :
          copyFrom(u, target, source)
    \/ withinBudget /\ \E u \in Callers, d \in DocIds, title \in Titles :
          documents_update(u, d, title, Unset)
    \/ withinBudget /\ \E u \in Callers, d \in DocIds : documents_remove(u, d)
    \/ withinBudget /\ \E u \in Callers, d \in DocIds : archive(u, d)
    \/ withinBudget /\ \E u \in Callers, d \in DocIds : restore(u, d)
    \/ withinBudget /\ \E u \in Callers, title \in NewTitles, preset \in Presets :
          createWithPreset(u, title, Unset, preset)
    \/ withinBudget /\ \E u \in Callers, title \in NewTitles, source \in DocIds :
          createWithCopy(u, title, Unset, source)

SpecAccess == Init /\ [][NextAccess]_vars

\* Retrieval: documents, their sources and index entries, and the generation
\* jobs that may search them
NextRetrieval ==
    \/ withinBudget /\ \E u \in Callers, title \in NewTitles : documents_create(u, title, Unset)
    \/ withinBudget /\ \E u \in Callers, d \in DocIds, tok \in Tokens, sel \in SelTexts :
          create(u, d, tok, sel)
    \/ \E u \in Callers, c \in CommentIds, content \in ReplyTexts : addReply(u, c, content)
    \/ jobNext
    \/ withinBudget /\ \E u \in Callers, d \in DocIds, text \in Texts :
          createFileSource(u, d, "paper.pdf", text)
    \/ withinBudget /\ \E u \in Callers, d \in DocIds, url \in Urls :
          createWebSource(u, d, url)
    \/ withinBudget /\ \E u \in Callers, d \in DocIds, title \in {"", "Notes"}, text \in Texts :
          createTextSource(u, d, title, text)
    \/ \E u \in Callers, s \in SourceIds : sources_remove(u, s)
    \/ indexNext

SpecRetrieval == Init /\ [][NextRetrieval]_vars

\* The next step of generation job j; the external calls return or throw
jobStep(j) ==
    /\ j \in JobIds
    /\ \/ jobSetStreaming(j)
       \/ jobGetCommentWithMessages(j)
       \/ \E ok \in BOOLEAN : jobCreateThread(j, ok)
       \/ \E result \in AITexts \cup {Throw} : jobGenerateText(j, result)
       \/ jobSaveAIMessage(j)
       \/ jobSetComplete(j)
       \/ jobCatch(j)

\* Comment lifecycle: create, addReply and resolve interleaved with the jobs
NextLifecycle ==
    \/ summonNext
    \/ \E u \in Callers, c \in CommentIds : resolve(u, c)
    \/ jobNext

\* The scheduler runs every scheduled action, and runs it to its end
FairLifecycle ==
    /\ Init
    /\ [][NextLifecycle]_vars
    /\ \A j \in 1..MaxJobs : WF_vars(jobStep(j))

\* Sources: documents, the creation mutations, remove, and the indexing jobs
NextSources ==
    \/ \E u \in Callers, title \in NewTitles : documents_create(u, title, Unset)
    \/ \E u \in Callers, d \in DocIds, text \in Texts :
          createFileSource(u, d, "paper.pdf", text)
    \/ \E u \in Callers, d \in DocIds, url \in Urls : createWebSource(u, d, url)
    \/ \E u \in Callers, d \in DocIds, title \in {"", "Notes"}, text \in Texts :
          createTextSource(u, d, title, text)
    \/ \E u \in Callers, s \in SourceIds : sources_remove(u, s)
    \/ indexNext

SpecSources == Init /\ [][NextSources]_vars

\* The next step of indexing or cleanup job j; the external calls return or throw
indexStep(j) ==
    /\ j \in IndexJobIds
    /\ \/ \E ok \in BOOLEAN : indexSource(j, ok)
       \/ \E result \in ScrapeResults : scrapeAndIndexWebSource(j, result)
       \/ jobUpdateTitle(j)
       \/ \E ok \in BOOLEAN : jobRagAdd(j, ok)
       \/ jobUpdateStatus(j)
       \/ indexCatch(j)
       \/ \E ok \in BOOLEAN : cleanupRagEntries(j, ok)

\* The scheduler runs every scheduled action, and runs it to its end; a
\* Source has at most its indexing job and its cleanup job
FairSources ==
    /\ Init
    /\ [][NextSources]_vars
    /\ \A j \in 1..(2 * MaxSources) : WF_vars(indexStep(j))

\* Auto-save: the user types content and titles while timers and calls run
NextEditor ==
    \/ \E content \in EditorContents : handleContentUpdate(content)
    \/ \E newTitle \in EditorTitles : handleTitleChange(newTitle)
    \/ saveTimeoutFires
    \/ titleTimeoutFires
    \/ updateReturns

\* Timers fire and calls return
FairEditor ==
    /\ Init
    /\ [][NextEditor]_vars
    /\ WF_vars(saveTimeoutFires)
    /\ WF_vars(titleTimeoutFires)
    /\ WF_vars(updateReturns)

\* Generation: comments of documents whose settings the owner edits
NextGeneration ==
    \/ \E u \in Callers, d \in DocIds, s \in SettingsInputs : upsert(u, d, s)
    \/ summonNext
    \/ jobNext

SpecGeneration == Init /\ [][NextGeneration]_vars

\* ------------------------------------------------------------------------
\* Properties
\* ------------------------------------------------------------------------
jobsOf(c) == { j \in JobIds : scheduled[j].commentDbId = c }
inFlight(c) == { j \in jobsOf(c) : scheduled[j].pc \notin {"done", "failed"} }
running == { "getCommentWithMessages", "createThread", "generateText",
             "saveAIMessage", "setComplete", "catch" }

\* C1: for every Comment at most one generation job is scheduled or
\* running at any time, whatever the interleaving of create, addReply,
\* resolve and the job steps.
C1_AtMostOneJobInFlight ==
    \A c \in CommentIds : Cardinality(inFlight(c)) <= 1

\* C2: addReply on a Comment that is neither complete nor error is rejected
\* (no Message appended, status unchanged, no job scheduled); from complete
\* or error an accepted addReply appends exactly one user Message, sets
\* pending and schedules exactly one job.
C2_AddReplyOnlyFromCompleteOrError ==
    [][ \A u \in Users, c \in CommentIds, content \in ReplyTexts :
          (addReply(u, c, content) /\ comments[c].ownerId = u) =>
             IF comments[c].status \in {"complete", "error"}
             THEN /\ commentMessages' = Append(commentMessages,
                       [commentId |-> c, role |-> "user", content |-> content])
                  /\ comments'[c].status = "pending"
                  /\ Len(scheduled') = Len(scheduled) + 1
                  /\ scheduled'[Len(scheduled')].commentDbId = c
             ELSE UNCHANGED << comments, commentMessages, scheduled >> ]_vars

C4_NoMessageCommittedOnError ==
    \A j \in JobIds :
        scheduled[j].pc = "failed" => scheduled[j].endCount = scheduled[j].startCount

\* C5: summon flow.  A Comment inserted by create and never replied to has
\* status pending until its job starts, streaming while the job runs and
\* complete once a job whose generation call succeeded has finished; it then
\* holds exactly one user Message, whose content is the selected text, followed
\* by exactly one assistant Message.
noReply(c) == \A j \in jobsOf(c) : scheduled[j].fn # "generateReply"

C5_SummonFlow ==
    \A j \in JobIds :
        LET c == scheduled[j].commentDbId IN
        (scheduled[j].fn = "generateAIResponse" /\ noReply(c)) =>
            /\ scheduled[j].pc = "scheduled" => comments[c].status = "pending"
            /\ scheduled[j].pc \in running => comments[c].status = "streaming"
            /\ scheduled[j].pc = "failed" => comments[c].status = "error"
            /\ scheduled[j].pc = "done" =>
                  /\ comments[c].status = "complete"
                  /\ getCommentWithMessages(c).messages =
                        << [role |-> "user", content |-> comments[c].selectedText],
                           [role |-> "assistant", content |-> scheduled[j].text] >>
            /\ scheduled[j].pc # "done" =>
                  /\ Cardinality(userMessagesOf(c)) = 1
                  /\ Cardinality(assistantMessagesOf(c)) =
                        IF scheduled[j].pc = "setComplete" THEN 1 ELSE 0

C5_Witness ==
    \E j \in JobIds :
        /\ scheduled[j].fn = "generateAIResponse"
        /\ noReply(scheduled[j].commentDbId)
        /\ scheduled[j].pc = "done"
        /\ scheduled[j].text \in AITexts
        /\ comments[scheduled[j].commentDbId].resolvedAt = Undefined

\* C6: manual-comment flow.  A Comment inserted by createWithoutAI is in
\* awaiting_input with no Message and no job until addInitialMessage, and the
\* first generation job of such a Comment is the one addInitialMessage
\* scheduled.
C6_ManualFlowDeferred ==
    \A c \in CommentIds :
        origin[c] = "createWithoutAI" =>
            /\ comments[c].status = "awaiting_input" =>
                  (messagesOf(c) = {} /\ jobsOf(c) = {})
            /\ jobsOf(c) # {} => scheduled[Min(jobsOf(c))].by = "addInitialMessage"

\* C7: addInitialMessage is accepted only from awaiting_input, a rejected call
\* changes nothing, and so no Comment ever gets more than one job from
\* addInitialMessage, and a Comment inserted by create gets none.
initialJobsOf(c) == { j \in jobsOf(c) : scheduled[j].by = "addInitialMessage" }

C8_ResolveTwiceSame ==
    [][ \A u \in Users, c \in CommentIds :
          (comments[c].ownerId = u /\ comments[c].resolvedAt # Undefined) =>
              /\ resolveOutcome(u, c) = "ok"
              /\ resolve(u, c) => comments'[c] = comments[c] ]_vars

\* C9: resolve changes only resolvedAt of the one Comment, from every status,
\* leaving status, Messages and generation jobs as they were; and no step ever
\* clears a resolvedAt that is set.
C9_ResolveFrame ==
    [][ /\ \A c \in CommentIds :
             comments[c].resolvedAt # Undefined => comments'[c].resolvedAt # Undefined
        /\ \A u \in Users, c \in CommentIds :
             (resolve(u, c) /\ comments[c].ownerId = u) =>
                /\ comments' = [comments EXCEPT ![c].resolvedAt = comments'[c].resolvedAt]
                /\ comments'[c].resolvedAt # Undefined
                /\ UNCHANGED << commentMessages, scheduled >> ]_vars

C9_Witness ==
    \E c \in CommentIds :
        /\ comments[c].resolvedAt # Undefined
        /\ comments[c].status = "complete"
        /\ \E j \in jobsOf(c) : scheduled[j].pc = "done"
        /\ \E d \in CommentIds :
              comments[d].resolvedAt # Undefined /\ comments[d].status = "streaming"

\* C10: no two Comment rows of one document carry the same annotation token.
C10_OneRowPerToken ==
    \A c1, c2 \in CommentIds :
        (c1 # c2 /\ comments[c1].documentId = comments[c2].documentId)
            => comments[c1].commentId # comments[c2].commentId

\* Ownership as the data model defines it: the authenticated user named in
\* the ownerId of a row that exists
ownsDocument(u, d) ==
    u \in Users /\ d \in DocIds /\ ~documents[d].deleted /\ documents[d].ownerId = u
ownsComment(u, c) == u \in Users /\ c \in CommentIds /\ comments[c].ownerId = u
ownsSource(u, s) ==
    u \in Users /\ s \in SourceIds /\ ~sources[s].deleted /\ sources[s].ownerId = u

\* C11: document delete cascades.  No Comment row (and so no Message of one)
\* refers to a document that documents.remove has deleted.
C11_DocumentDeleteCascades ==
    /\ \A c \in CommentIds : ~documents[comments[c].documentId].deleted
    /\ \A m \in 1..Len(commentMessages) :
          ~documents[comments[commentMessages[m].commentId].documentId].deleted

\* C12: a mutation invoked by an unauthenticated caller, or by a user who
\* does not own the referenced document, comment or source, throws, and no
\* step that changes a table or the scheduled jobs is such a call.
C12_UnauthorizedMutationsRejected ==
    [][ \A u \in Callers :
          /\ \A d \in DocIds :
                ~ownsDocument(u, d) =>
                   /\ createOutcome(u, d) # "ok"
                   /\ createSourceOutcome(u, d) # "ok"
                   /\ \A url \in Urls : createWebSourceOutcome(u, d, url) # "ok"
                   /\ \A text \in Texts : createTextSourceOutcome(u, d, text) # "ok"
                   /\ \A s \in SettingsInputs : upsertOutcome(u, d, s) # "ok"
                   /\ \A e \in DocIds :
                         /\ copyFromOutcome(u, d, e) # "ok"
                         /\ copyFromOutcome(u, e, d) # "ok"
                   /\ documentOutcome(u, d) # "ok"
                   /\ createWithCopyOutcome(u, d) # "ok"
                   /\ vars' # vars =>
                         /\ \A tok \in Tokens, sel \in SelTexts : ~create(u, d, tok, sel)
                         /\ \A text \in Texts : ~createFileSource(u, d, "paper.pdf", text)
                         /\ \A url \in Urls : ~createWebSource(u, d, url)
                         /\ \A title \in {"", "Notes"}, text \in Texts :
                               ~createTextSource(u, d, title, text)
                         /\ \A s \in SettingsInputs : ~upsert(u, d, s)
                         /\ \A e \in DocIds : ~copyFrom(u, d, e) /\ ~copyFrom(u, e, d)
                         /\ \A title \in Titles : ~documents_update(u, d, title, Unset)
                         /\ ~documents_remove(u, d)
                         /\ ~archive(u, d)
                         /\ ~restore(u, d)
                         /\ \A title \in NewTitles : ~createWithCopy(u, title, Unset, d)
          /\ \A c \in CommentIds :
                ~ownsComment(u, c) =>
                   /\ addReplyOutcome(u, c) # "ok"
                   /\ resolveOutcome(u, c) # "ok"
                   /\ vars' # vars =>
                         /\ \A content \in ReplyTexts : ~addReply(u, c, content)
                         /\ ~resolve(u, c)
          /\ \A s \in SourceIds :
                ~ownsSource(u, s) =>
                   /\ sources_removeOutcome(u, s) # "ok"
                   /\ vars' # vars => ~sources_remove(u, s) ]_vars

\* Alice's document has a comment, a source and a settings row, and every
\* mutation on them throws for bob and for an unauthenticated caller.
C12_Witness ==
    \E d \in DocIds, c \in CommentIds, s \in SourceIds :
        /\ ownsDocument("alice", d)
        /\ comments[c].documentId = d
        /\ ~sources[s].deleted
        /\ sources[s].documentId = d
        /\ settingsOf(d) # {}
        /\ \A u \in {"bob", NoUser} :
              /\ documentOutcome(u, d) # "ok"
              /\ addReplyOutcome(u, c) # "ok"
              /\ sources_removeOutcome(u, s) # "ok"
              /\ copyFromOutcome(u, d, d) # "ok"

\* C13: a document-scoped query called by a caller who does not own the
\* document returns the same empty result ([], 0 or null) whether the
\* document has rows, has been deleted or never existed.
C13_QueriesSilentForNonOwner ==
    \A u \in Callers, d \in 1..(Len(documents) + 1) :
        ~ownsDocument(u, d) =>
            /\ listByDocument(u, d) = << >>
            /\ countByDocument(u, d) = 0
            /\ sources_listByDocument(u, d) = << >>
            /\ sources_countByDocument(u, d) = 0
            /\ documentSettings_get(u, d) = Null
            /\ documents_get(u, d) = Null

\* Alice's document has an open comment, a source and a settings row, which
\* her queries return and bob's do not.
C13_Witness ==
    \E d \in DocIds :
        /\ ownsDocument("alice", d)
        /\ countByDocument("alice", d) = 1
        /\ Len(listByDocument("alice", d)) = 1
        /\ sources_countByDocument("alice", d) = 1
        /\ Len(sources_listByDocument("alice", d)) = 1
        /\ documentSettings_get("alice", d).hasCustomSettings
        /\ documents_get("alice", d) # Null
        /\ countByDocument("bob", d) = 0
        /\ sources_countByDocument("bob", d) = 0

\* C14: every retrieval search issued while a generation job for a Comment
\* of document D is generating returns only entries indexed under D, whatever
\* documentId argument the generation service passes to the search tool.
C14_SearchStaysInDocument ==
    \A j \in JobIds :
        scheduled[j].pc = "generateText" =>
            \A documentId \in ToolDocumentIds :
                \A e \in searchSourcesTool(documentId) :
                    rag[e].namespace = scheduled[j].documentId

\* C15: at most one documentSettings row exists per document in every
\* reachable state, under every interleaving of upsert, copyFrom,
\* createWithPreset, createWithCopy and createOnboardingDocument.
C15_OneSettingsRowPerDocument ==
    \A i, j \in 1..Len(documentSettings) :
        documentSettings[i].documentId = documentSettings[j].documentId => i = j

C15_Witness ==
    /\ Len(documents) >= 3
    /\ \A d \in DocIds : Cardinality(settingsOf(d)) = 1
    /\ \E i \in 1..Len(documentSettings) :
          /\ documentSettings[i].model = DEFAULT_SETTINGS.model
          /\ documentSettings[i].updatedAt = 1
    /\ \E i \in 1..Len(documentSettings) :
          /\ documentSettings[i].temperature = 20
          /\ documentSettings[i].updatedAt = 1

\* C16: every documentSettings row in the store has temperature within
\* [0, 2] and maxSteps within [1, 10], whichever operation wrote it.
C16_SettingsInRange ==
    \A i \in 1..Len(documentSettings) :
        /\ documentSettings[i].temperature >= 0
        /\ documentSettings[i].temperature <= 20
        /\ documentSettings[i].maxSteps >= 1
        /\ documentSettings[i].maxSteps <= 10

\* C17: an upsert by the owner of the document is rejected exactly when
\* temperature < 0, temperature > 2, maxSteps < 1 or maxSteps > 10 (the bounds
\* 0, 2, 1 and 10 are accepted), and no step that changes the documentSettings
\* table is a rejected upsert.
C17_UpsertRangeValidation ==
    [][ /\ \A d \in DocIds, s \in SettingsInputs :
             LET u == documents[d].ownerId IN
             documentOwned(u, d) =>
                ((upsertOutcome(u, d, s) # "ok") <=>
                    \/ s.temperature < 0
                    \/ s.temperature > 20
                    \/ s.maxSteps < 1
                    \/ s.maxSteps > 10)
        /\ documentSettings' # documentSettings =>
             \A u \in Callers, d \in DocIds, s \in SettingsInputs :
                upsertOutcome(u, d, s) # "ok" => ~upsert(u, d, s) ]_vars

C17_Witness ==
    /\ \E i \in 1..Len(documentSettings) :
          /\ documentSettings[i].temperature = 0
          /\ documentSettings[i].maxSteps = 1
    /\ \E i \in 1..Len(documentSettings) :
          /\ documentSettings[i].temperature = 20
          /\ documentSettings[i].maxSteps = 10
    /\ \E u \in Users, d \in DocIds :
          /\ documentOwned(u, d)
          /\ settingsOf(d) = {}
          /\ upsertOutcome(u, d, settingsInput(21, 10)) = "Temperature must be between 0 and 2"
          /\ upsertOutcome(u, d, settingsInput(20, 11)) = "Max steps must be between 1 and 10"

\* C18: round trip.  After an accepted upsert(documentId, s) by the owner,
\* get(documentId) returns model, provider, temperature, maxSteps,
\* systemPrompt, description and tools equal to s with hasCustomSettings true,
\* whether or not a row existed before and whatever it held.
C18_UpsertGetRoundTrip ==
    [][ documentSettings' # documentSettings =>
          \A d \in DocIds, s \in SettingsInputs :
             LET u == documents[d].ownerId IN
             (upsertOutcome(u, d, s) = "ok" /\ upsert(u, d, s)) =>
                LET r == documentSettings_get(u, d)' IN
                /\ r # Null
                /\ r.model = s.model
                /\ r.provider = s.provider
                /\ r.temperature = s.temperature
                /\ r.maxSteps = s.maxSteps
                /\ r.systemPrompt = s.systemPrompt
                /\ r.description = s.description
                /\ r.tools = s.tools
                /\ r.hasCustomSettings ]_vars

\* The first row was inserted at time 0 (a later row carries that stamp) and
\* has been patched at time 1; it now holds values only upsert writes, with
\* no description.
C18_Witness ==
    /\ Len(documentSettings) >= 2
    /\ documentSettings[2].updatedAt = 0
    /\ documentSettings[2].description # Unset
    /\ documentSettings[1].updatedAt = 1
    /\ documentSettings[1].description = Unset
    /\ documentSettings[1].model = settingsInput(0, 1).model
    /\ LET d == documentSettings[1].documentId IN
       /\ d \in DocIds
       /\ documentSettings_get(documents[d].ownerId, d).hasCustomSettings

\* C19: get(documentId) by the owner of a document with no settings row
\* returns the fixed defaults with hasCustomSettings false, never null; being
\* a query, it writes nothing.
C19_GetDefaults ==
    \A u \in Users, d \in DocIds :
        (documentOwned(u, d) /\ settingsOf(d) = {}) =>
            documentSettings_get(u, d) =
                [_id |-> Undefined, documentId |-> d,
                 model |-> "claude-sonnet-4-5-20250826", provider |-> "anthropic",
                 temperature |-> 7, maxSteps |-> 5,
                 systemPrompt |-> DEFAULT_SYSTEM_PROMPT, description |-> Unset,
                 tools |-> [searchSources |-> TRUE, webSearch |-> FALSE,
                            citation |-> FALSE],
                 hasCustomSettings |-> FALSE]

C19_Witness ==
    \E u \in Users, d, e \in DocIds :
        /\ documentOwned(u, d)
        /\ documentOwned(u, e)
        /\ settingsOf(d) = {}
        /\ settingsOf(e) # {}
        /\ ~documentSettings_get(u, d).hasCustomSettings
        /\ documentSettings_get(u, e).hasCustomSettings

\* What a copy writes: the seven configuration fields
configOf(s) ==
    [model |-> s.model, provider |-> s.provider, temperature |-> s.temperature,
     maxSteps |-> s.maxSteps, systemPrompt |-> s.systemPrompt,
     description |-> s.description, tools |-> s.tools]
sourceRowUnchanged(source) ==
    /\ settingsOf(source)' = settingsOf(source)
    /\ \A i \in settingsOf(source) : documentSettings'[i] = documentSettings[i]

\* C20: after copyFrom(target, source) by the owner of both,
\* get(target) reports the source's settings-or-defaults with
\* hasCustomSettings true, and the source document's settings row (or its
\* absence) is unchanged.
C20_CopyFromFrame ==
    [][ documentSettings' # documentSettings =>
          \A target \in DocIds, source \in DocIds :
             LET u == documents[target].ownerId IN
             (/\ copyFromOutcome(u, target, source) = "ok"
              /\ copyFrom(u, target, source)) =>
                LET r == documentSettings_get(u, target)' IN
                /\ r # Null
                /\ configOf(r) = configOf(documentSettings_get(u, source))
                /\ r.hasCustomSettings
                /\ sourceRowUnchanged(source) ]_vars

\* C21: each generation job calls the generation service exactly once, and
\* the call is made with the model, temperature, maxSteps, system prompt and
\* tool set of the effective settings of the Comment's document: a tool is
\* offered iff its flag is true.
C21_GenerationUsesDocumentSettings ==
    \A j \in JobIds :
        /\ scheduled[j].calls <= 1
        /\ scheduled[j].pc \in {"saveAIMessage", "setComplete", "done"} =>
               scheduled[j].calls = 1
        /\ scheduled[j].pc = "generateText" =>
               LET settings == getInternal(scheduled[j].documentId)
                   agent == generateTextAgent(j) IN
               /\ agent.languageModel[2] = settings.model
               /\ agent.temperature = settings.temperature
               /\ agent.maxSteps = settings.maxSteps
               /\ agent.instructions[1] = settings.systemPrompt
               /\ \A t \in ToolNames : t \in agent.tools <=> settings.tools[t]

\* Indexing jobs whose extracted text is empty or only whitespace
emptyTextJobs ==
    { j \in IndexJobIds : /\ indexJobs[j].fn = "indexSource"
                          /\ trim(indexJobs[j].extractedText) = "" }

\* C22: an indexing job given empty or whitespace-only text never adds an
\* entry to the retrieval index, never records an entry reference, never
\* sets the Source to indexed, and when it has finished on its Source the
\* status is error with an error message.
C22_EmptyTextIsError ==
    \A j \in emptyTextJobs :
        LET s == indexJobs[j].sourceId IN
        /\ \A e \in 1..Len(rag) : rag[e].key # s
        /\ indexJobs[j].entryId = Undefined
        /\ indexJobs[j].pc \notin {"updateStatus", "done"}
        /\ sources[s].status # "indexed"
        /\ sources[s].ragEntryId = Undefined
        /\ indexJobs[j].pc = "failed" =>
               /\ sources[s].status = "error"
               /\ sources[s].errorMessage = "No text content provided"

C22_Witness ==
    \E j \in emptyTextJobs :
        /\ indexJobs[j].extractedText = "   "
        /\ indexJobs[j].pc = "failed"
        /\ liveSource(indexJobs[j].sourceId)
        /\ sources[indexJobs[j].sourceId].status = "error"

\* The cleanupRagEntries jobs scheduled for Source s in a scheduler table
cleanupsOf(jobs, s) ==
    { j \in 1..Len(jobs) : jobs[j].fn = "cleanupRagEntries" /\ jobs[j].sourceId = s }

\* C23: an accepted remove of an indexed Source deletes the row and
\* schedules exactly one cleanupRagEntries job, carrying the entry reference
\* the indexing job stored; an accepted remove of a Source with no entry
\* reference deletes the row and schedules nothing; and no step, a failing
\* index deletion included, brings a deleted Source row back.
C23_RemoveSchedulesCleanup ==
    [][ /\ \A u \in Users, s \in SourceIds :
             (sources_removeOutcome(u, s) = "ok" /\ sources_remove(u, s)) =>
                 /\ sources'[s].deleted
                 /\ sources[s].status = "indexed" =>
                       /\ Len(indexJobs') = Len(indexJobs) + 1
                       /\ cleanupsOf(indexJobs', s) = {Len(indexJobs')}
                       /\ indexJobs'[Len(indexJobs')].ragEntryId = sources[s].ragEntryId
                       /\ \E i \in IndexJobIds :
                             /\ indexJobs[i].sourceId = s
                             /\ indexJobs[i].pc = "done"
                             /\ indexJobs[i].entryId = sources[s].ragEntryId
                 /\ sources[s].ragEntryId = Undefined => indexJobs' = indexJobs
        /\ \A s \in SourceIds :
             sources[s].deleted => Len(sources') >= s /\ sources'[s].deleted
      ]_vars

C23_Witness ==
    \E s \in SourceIds, j \in IndexJobIds :
        /\ sources[s].deleted
        /\ sources[s].status = "indexed"
        /\ j \in cleanupsOf(indexJobs, s)
        /\ indexJobs[j].pc = "done"
        /\ ~rag[indexJobs[j].ragEntryId].deleted

\* C24: no background job ends with an unhandled exception, whatever the
\* external services answer and whatever user operations interleave with
\* it, and the step that ends a failed generation or indexing job leaves
\* status error on its Comment or Source.
C24_JobsNeverCrash ==
    [][ /\ \A j \in 1..Len(indexJobs') : indexJobs'[j].pc # "crashed"
        /\ \A j \in IndexJobIds :
             (indexJobs[j].pc # "failed" /\ indexJobs'[j].pc = "failed") =>
                 sources'[indexJobs[j].sourceId].status = "error"
        /\ \A j \in JobIds :
             (scheduled[j].pc # "failed" /\ scheduled'[j].pc = "failed") =>
                 comments'[scheduled[j].commentDbId].status = "error"
      ]_vars

\* The step appended one Source row in processing and one indexing job of
\* function fn for it, and changed no other row or job
oneSourceOneJob(fn) ==
    LET sourceId == Len(sources) + 1
        jobId == Len(indexJobs) + 1 IN
    /\ Len(sources') = sourceId
    /\ SubSeq(sources', 1, Len(sources)) = sources
    /\ sources'[sourceId].status = "processing"
    /\ ~sources'[sourceId].deleted
    /\ Len(indexJobs') = jobId
    /\ SubSeq(indexJobs', 1, Len(indexJobs)) = indexJobs
    /\ indexJobs'[jobId].fn = fn
    /\ indexJobs'[jobId].sourceId = sourceId
    /\ indexJobs'[jobId].pc = "scheduled"

\* C25: createTextSource with empty or whitespace-only text and
\* createWebSource with a malformed URL throw, and a throwing create inserts
\* no Source row and schedules no job; every accepted createFileSource,
\* createWebSource or createTextSource inserts exactly one Source row in
\* status processing and schedules exactly one indexing job for it.
C25_SourceCreation ==
    [][ \A u \in Callers, d \in DocIds :
          /\ \A title \in {"", "Notes"}, text \in Texts :
               /\ trim(text) = "" => createTextSourceOutcome(u, d, text) # "ok"
               /\ createTextSource(u, d, title, text) =>
                     IF createTextSourceOutcome(u, d, text) # "ok"
                     THEN sources' = sources /\ indexJobs' = indexJobs
                     ELSE oneSourceOneJob("indexSource")
          /\ \A url \in Urls :
               /\ ~validURL(url) => createWebSourceOutcome(u, d, url) # "ok"
               /\ createWebSource(u, d, url) =>
                     IF createWebSourceOutcome(u, d, url) # "ok"
                     THEN sources' = sources /\ indexJobs' = indexJobs
                     ELSE oneSourceOneJob("scrapeAndIndexWebSource")
          /\ \A text \in Texts :
               createFileSource(u, d, "paper.pdf", text) =>
                     IF createSourceOutcome(u, d) # "ok"
                     THEN sources' = sources /\ indexJobs' = indexJobs
                     ELSE oneSourceOneJob("indexSource")
      ]_vars

C25_Witness ==
    \E s \in SourceIds :
        /\ sources[s].sourceType = "text"
        /\ sources[s].status = "processing"
        /\ \E j \in IndexJobIds :
             /\ indexJobs[j].sourceId = s
             /\ indexJobs[j].extractedText = "quoted passage"
             /\ \A k \in IndexJobIds : indexJobs[k].sourceId = s => k = j

\* C26: under fair scheduling of the jobs, with external calls that return
\* or throw, a Comment in pending or streaming eventually reaches complete
\* or error, whatever addReply and resolve calls interleave.
C26_CommentsSettle ==
    \A c \in 1..MaxComments :
        (c \in CommentIds /\ comments[c].status \in {"pending", "streaming"})
            ~> (c \in CommentIds /\ comments[c].status \in {"complete", "error"})

C26_Witness ==
    \E c \in CommentIds :
        /\ comments[c].status = "complete"
        /\ comments[c].resolvedAt # Undefined
        /\ \E j \in jobsOf(c) : scheduled[j].fn = "generateReply" /\ scheduled[j].pc = "done"
        /\ \A j \in jobsOf(c) : scheduled[j].pc \in {"done", "failed"}

\* C27: under fair scheduling every Source that is not removed eventually
\* leaves processing for indexed or error; the only status changes of a
\* Source are processing to indexed and processing to error; a Source is
\* indexed only with an entry reference and in error only with a message.
C27_SourceLifecycle ==
    /\ \A s \in 1..MaxSources :
          (s \in SourceIds /\ sources[s].status = "processing")
              ~> (s \in SourceIds /\ (\/ sources[s].deleted
                                       \/ sources[s].status \in {"indexed", "error"}))
    /\ [][ \A s \in SourceIds :
             sources'[s].status # sources[s].status =>
                 /\ sources[s].status = "processing"
                 /\ sources'[s].status \in {"indexed", "error"} ]_vars
    /\ [](\A s \in SourceIds :
             /\ sources[s].status = "indexed" => sources[s].ragEntryId # Undefined
             /\ sources[s].status = "error" => sources[s].errorMessage # Unset)

C27_Witness ==
    \E s \in SourceIds, j \in IndexJobIds :
        /\ liveSource(s)
        /\ sources[s].sourceType = "web"
        /\ sources[s].status = "indexed"
        /\ indexJobs[j].sourceId = s
        /\ indexJobs[j].pc = "done"
        /\ sources[s].ragEntryId = indexJobs[j].entryId

\* Every scheduled indexing or cleanup job has ended
indexJobsFinished ==
    \A j \in IndexJobIds : indexJobs[j].pc \in {"done", "failed", "crashed"}

\* C28: once sources.remove has deleted a Source and every scheduled job
\* has finished, the retrieval index holds no entry keyed by that Source,
\* even when every index deletion that was scheduled succeeded and whenever
\* remove ran relative to the indexing job.
C28_NoEntryAfterRemove ==
    \A s \in SourceIds :
        ( /\ sources[s].deleted
          /\ indexJobsFinished
          /\ \A j \in cleanupsOf(indexJobs, s) : rag[indexJobs[j].ragEntryId].deleted )
        => \A e \in 1..Len(rag) : rag[e].key = s => rag[e].deleted

\* C29: the save indicator shows saved only when the stored content and
\* title are those of the editor, and once the user has stopped editing the
\* stored content eventually equals the latest editor content.
C29_AutoSave ==
    /\ [](editor.saveStatus = "saved" =>
            /\ documents[PageDocument].content = stringify(editor.content)
            /\ documents[PageDocument].title = editor.title)
    /\ <>[](documents[PageDocument].content = stringify(editor.content))

\* The most recently created message of Comment c
lastMessageOf(c) == CHOOSE i \in messagesOf(c) : \A k \in messagesOf(c) : k <= i

\* C30: a Comment whose status is complete has at least one assistant
\* Message, and its most recently created Message has role assistant.
C30_CompleteEndsWithAssistant ==
    \A c \in CommentIds :
        comments[c].status = "complete" =>
            /\ assistantMessagesOf(c) # {}
            /\ commentMessages[lastMessageOf(c)].role = "assistant"

====
